---- MODULE Spec2Model ----
(***************************************************************************)
(* Model of call-script.mjs: callScript launches a debugger container for  *)
(* a source file and extracts the text printed between RESULT_BEGIN and    *)
(* RESULT_END from 'data' events of process.stdout.                        *)
(*                                                                         *)
(* A JavaScript string is a sequence of tokens (TLA+ strings): "" is <<>>, *)
(* string concatenation is \o.  Every sentinel is two tokens, so that a    *)
(* sentinel can straddle a chunk boundary.  A path is tokenised into "/",  *)
(* "." and names.                                                          *)
(***************************************************************************)
EXTENDS Integers, Sequences, FiniteSets

VARIABLES
    selfRoot,        \* paths.selfRoot = process.cwd() at module load
    cur,             \* number of the callScript session in progress (0: none yet)
    pc,              \* position of the current callScript invocation
    call,            \* the arguments the caller passed: [mainFilePath, logLevel]
    plan,            \* { command, args } of line 18 (args <<>> before it is computed)
    json,            \* json[s]: the promise of line 20, [state, value]
    raw,             \* raw[s]: the accumulation buffer of line 28
    outcome,         \* outcome[s]: how the call ended, [kind, value]
    errorListeners,  \* sessions whose listener is registered on process 'error'
    dataListeners,   \* sessions whose onData is registered on process.stdout 'data'
    child,           \* the subprocess of line 45: [state, error]
    terminal,        \* chunks the subprocess wrote to the inherited standard output
    data,            \* argument of the latest 'data' event
    nData,           \* number of 'data' events so far
    seenBegin,       \* history: some 'data' chunk contained RESULT_BEGIN
    seenEnd,         \* history: some 'data' chunk contained RESULT_END
    shape,           \* history: how far the chunks follow BEGIN, neither*, END
    between,         \* history: the text the chunks of that shape put between the sentinels
    givenMount,      \* a DockerMount handed to toDockerMountArgs
    mountArgs        \* what toDockerMountArgs returned for it (<<>> before the call)

vars == <<selfRoot, cur, pc, call, plan, json, raw, outcome, errorListeners,
          dataListeners, child, terminal, data, nData, seenBegin, seenEnd,
          shape, between, givenMount, mountArgs>>

(***************************************************************************)
(* Bounds of the model.                                                    *)
(***************************************************************************)
NumSessions == 2     \* sessions the state has room for
MaxData == 3         \* 'data' events in a run
MaxPrints == 3       \* chunks the subprocess prints

Sessions == 1..NumSessions

(***************************************************************************)
(* JavaScript strings.                                                     *)
(***************************************************************************)
\* String.prototype.indexOf: 0-based position of the first occurrence, or -1.
IndexOf(s, t) ==
    LET hits == {i \in 0..(Len(s) - Len(t)) : SubSeq(s, i + 1, i + Len(t)) = t}
    IN  IF hits = {} THEN -1 ELSE CHOOSE i \in hits : \A j \in hits : i <= j

\* String.prototype.includes
Includes(s, t) == IndexOf(s, t) # -1

\* String.prototype.slice(from), from >= 0
SliceFrom(s, from) == SubSeq(s, from + 1, Len(s))

\* String.prototype.slice(0, to), to >= 0
SliceTo(s, to) == SubSeq(s, 1, to)

WhiteSpace == {" ", "\n"}

\* String.prototype.trim
Trim(s) ==
    LET keep == {i \in 1..Len(s) : s[i] \notin WhiteSpace}
    IN  IF keep = {} THEN <<>>
        ELSE SubSeq(s, CHOOSE i \in keep : \A j \in keep : i <= j,
                       CHOOSE i \in keep : \A j \in keep : i >= j)

\* Array.prototype.join of an array of strings
RECURSIVE Join(_, _)
Join(parts, sep) ==
    IF parts = <<>> THEN <<>>
    ELSE IF Len(parts) = 1 THEN parts[1]
    ELSE parts[1] \o sep \o Join(Tail(parts), sep)

\* Array.prototype.flatMap / spread of arrays into one array
RECURSIVE Flatten(_)
Flatten(arrays) ==
    IF arrays = <<>> THEN <<>> ELSE arrays[1] \o Flatten(Tail(arrays))

(***************************************************************************)
(* JavaScript values that are not always strings.                          *)
(***************************************************************************)
Undefined == [t |-> "undefined"]
Null == [t |-> "null"]
Str(s) == [t |-> "string", v |-> s]
Bool(b) == [t |-> "boolean", v |-> b]

\* Boolean(x): undefined, null, false and '' are falsy
Truthy(x) ==
    CASE x.t = "string" -> x.v # <<>>
      [] x.t = "boolean" -> x.v
      [] OTHER -> FALSE

\* String(x), the conversion a template literal applies to ${x}
TemplateString(x) ==
    CASE x.t = "string" -> x.v
      [] x.t = "boolean" -> IF x.v THEN <<"true">> ELSE <<"false">>
      [] x.t = "null" -> <<"null">>
      [] OTHER -> <<"undefined">>

\* Array.prototype.filter(Boolean)
FilterBoolean(xs) == SelectSeq(xs, Truthy)

\* a && b
AndAnd(a, b) == IF Truthy(a) THEN b ELSE a

(***************************************************************************)
(* Node's path module (posix).                                             *)
(***************************************************************************)
\* The segments of a path between its "/" separators ("" segments included).
RECURSIVE Split(_)
Split(p) ==
    LET i == IndexOf(p, <<"/">>)
    IN  IF i = -1 THEN <<p>>
        ELSE <<SliceTo(p, i)>> \o Split(SliceFrom(p, i + 1))

\* A path without its trailing separators (a lone "/" is kept).
RECURSIVE StripTrailingSlashes(_)
StripTrailingSlashes(p) ==
    IF Len(p) > 1 /\ p[Len(p)] = "/" THEN StripTrailingSlashes(SliceTo(p, Len(p) - 1))
    ELSE p

\* 0-based position of the last "/" of p, or -1.
LastSlash(p) ==
    LET at == {i \in 0..(Len(p) - 1) : p[i + 1] = "/"}
    IN  IF at = {} THEN -1 ELSE CHOOSE i \in at : \A j \in at : i >= j

IsAbsolute(p) == p # <<>> /\ p[1] = "/"

\* path.basename(p)
Basename(p) ==
    LET q == StripTrailingSlashes(p)
    IN  IF q = <<"/">> THEN <<>> ELSE SliceFrom(q, LastSlash(q) + 1)

\* path.extname(p): from the last "." of the base name, '' when there is none, when
\* it is the first character of the base name, or when the base name is "..".
Extname(p) ==
    LET base == Basename(p)
        dots == {i \in 0..(Len(base) - 1) : base[i + 1] = "."}
        d == CHOOSE i \in dots : \A j \in dots : i >= j
    IN  IF dots = {} THEN <<>>
        ELSE IF d = 0 \/ base = <<".", ".">> THEN <<>>
        ELSE SliceFrom(base, d)

\* path.dirname(p): the text before the last "/" that is neither the first
\* character nor a trailing separator.
Dirname(p) ==
    LET q == StripTrailingSlashes(p)
        hasRoot == IsAbsolute(p)
        at == {i \in 1..(Len(q) - 1) : q[i + 1] = "/"}
        end == CHOOSE i \in at : \A j \in at : i >= j
    IN  IF p = <<>> THEN <<".">>
        ELSE IF at = {} THEN (IF hasRoot THEN <<"/">> ELSE <<".">>)
        ELSE IF hasRoot /\ end = 1 THEN <<"/", "/">>
        ELSE SliceTo(q, end)

\* normalizeString(path, false): "" and "." segments dropped, ".." drops the
\* segment before it (none at the root).
RECURSIVE NormalizeSegments(_, _)
NormalizeSegments(segs, acc) ==
    IF segs = <<>> THEN acc
    ELSE IF segs[1] = <<>> \/ segs[1] = <<".">> THEN NormalizeSegments(Tail(segs), acc)
    ELSE IF segs[1] = <<".", ".">>
         THEN NormalizeSegments(Tail(segs),
                                IF acc = <<>> THEN acc ELSE SubSeq(acc, 1, Len(acc) - 1))
    ELSE NormalizeSegments(Tail(segs), Append(acc, segs[1]))

\* path.resolve(from, to) with from absolute, as in every call of the program.
Resolve(from, to) ==
    LET joined == IF IsAbsolute(to) THEN to ELSE from \o <<"/">> \o to
    IN  <<"/">> \o Join(NormalizeSegments(Split(joined), <<>>), <<"/">>)

(***************************************************************************)
(* The tables and the command assembly.                                    *)
(***************************************************************************)
\* dockerRunConfigs: extension -> { image }
ConfigKeys == << <<".", "c">>, <<".", "cpp">>, <<".", "php">>, <<".", "py">> >>

\* The lookup falling back to an image for an extension the table lacks.
dockerRunConfigs_fallback(ext) ==
    CASE ext = <<".", "c">> -> [t |-> "object", image |-> <<"lldb-debugger">>]
      [] ext = <<".", "cpp">> -> [t |-> "object", image |-> <<"lldb-debugger">>]
      [] ext = <<".", "php">> -> [t |-> "object", image |-> <<"php-debugger">>]
      [] OTHER -> [t |-> "object", image |-> <<"python-debugger">>]

dockerRunConfigs(ext) ==
    CASE ext = <<".", "c">> -> [t |-> "object", image |-> <<"lldb-debugger">>]
      [] ext = <<".", "cpp">> -> [t |-> "object", image |-> <<"lldb-debugger">>]
      [] ext = <<".", "php">> -> [t |-> "object", image |-> <<"php-debugger">>]
      [] ext = <<".", "py">> -> [t |-> "object", image |-> <<"python-debugger">>]
      [] OTHER -> Undefined

dockerRoot == <<"/", "usr", "/", "project">>

paths_output(root) == Resolve(root, <<".", "/", "out">>)
paths_nodeModules(root) == Resolve(root, <<".", "/", "node_modules">>)
paths_vscodeLldb(root) == Resolve(root, <<".", "/", "vscode-lldb">>)
paths_vscodePhpDebug(root) == Resolve(root, <<".", "/", "vscode-php-debug">>)

\* A DockerMount; type and readOnly are optional.
Mount(source, target) ==
    [type |-> Undefined, source |-> source, target |-> target, readOnly |-> Undefined]

\* mountsPerImage[image], evaluated with paths.selfRoot = root
\* The images mountsPerImage has a key for.
MountImages == { <<"lldb-debugger">>, <<"php-debugger">>, <<"python-debugger">> }

\* mountsPerImage whose lldb-debugger entry names no target.
mountsPerImage_noTarget(image, root) ==
    CASE image = <<"lldb-debugger">> -> <<Mount(paths_vscodeLldb(root), <<>>)>>
      [] image = <<"php-debugger">> ->
            <<Mount(paths_vscodePhpDebug(root), paths_vscodePhpDebug(dockerRoot))>>
      [] OTHER -> <<>>

mountsPerImage(image, root) ==
    CASE image = <<"lldb-debugger">> ->
            <<Mount(paths_vscodeLldb(root), paths_vscodeLldb(dockerRoot))>>
      [] image = <<"php-debugger">> ->
            <<Mount(paths_vscodePhpDebug(root), paths_vscodePhpDebug(dockerRoot))>>
      [] OTHER -> <<>>

\* Array.prototype.join of an array whose elements need not be strings: null and
\* undefined give '', the others their String().
JoinValues(xs, sep) ==
    Join([i \in 1..Len(xs) |->
            IF xs[i].t \in {"undefined", "null"} THEN <<>> ELSE TemplateString(xs[i])],
         sep)

\* toDockerMountArgs without .filter(Boolean) on line 147.
toDockerMountArgs_unfiltered(mount) ==
    LET type == IF mount.type.t = "undefined" THEN <<"bind">> ELSE TemplateString(mount.type)
        parts == << Str(<<"type=">> \o type),
                    Str(<<"source=">> \o mount.source),
                    Str(<<"target=">> \o mount.target),
                    AndAnd(mount.readOnly, Str(<<"readonly">>)) >>
    IN  << <<"--mount">>, JoinValues(parts, <<",">>) >>

\* toDockerMountArgs({ type = 'bind', source, target, readOnly })
toDockerMountArgs(mount) ==
    LET type == IF mount.type.t = "undefined" THEN <<"bind">> ELSE TemplateString(mount.type)
        parts == << Str(<<"type=">> \o type),
                    Str(<<"source=">> \o mount.source),
                    Str(<<"target=">> \o mount.target),
                    AndAnd(mount.readOnly, Str(<<"readonly">>)) >>
        kept == FilterBoolean(parts)
        arg == Join([i \in 1..Len(kept) |-> kept[i].v], <<",">>)
    IN  << <<"--mount">>, arg >>

\* dockerRunCommand mounting mainFilePath itself on line 95, not its directory.
dockerRunCommand_mountsFile(docker, mainFilePath, logLevel, root) ==
    LET perImage == mountsPerImage(docker.image, root)
        list == << <<"run">>, <<"-it">>, <<"--rm">>, <<"--env">>,
                   <<"LOG_LEVEL=">> \o TemplateString(logLevel) >>
                \o Flatten([i \in 1..Len(perImage) |-> toDockerMountArgs(perImage[i])])
                \o toDockerMountArgs(Mount(paths_output(root), paths_output(dockerRoot)))
                \o toDockerMountArgs(Mount(paths_nodeModules(root),
                                           paths_nodeModules(dockerRoot)))
                \o toDockerMountArgs(Mount(Resolve(root, mainFilePath),
                                           Resolve(dockerRoot, mainFilePath)))
                \o << docker.image, mainFilePath >>
        kept == FilterBoolean([i \in 1..Len(list) |-> Str(list[i])])
    IN  [command |-> <<"docker">>, args |-> [i \in 1..Len(kept) |-> kept[i].v]]

\* dockerRunCommand with the project mount first and the per-image mounts last.
dockerRunCommand_projectFirst(docker, mainFilePath, logLevel, root) ==
    LET projectPath == Dirname(mainFilePath)
        perImage == mountsPerImage(docker.image, root)
        list == << <<"run">>, <<"-it">>, <<"--rm">>, <<"--env">>,
                   <<"LOG_LEVEL=">> \o TemplateString(logLevel) >>
                \o toDockerMountArgs(Mount(Resolve(root, projectPath),
                                           Resolve(dockerRoot, projectPath)))
                \o toDockerMountArgs(Mount(paths_output(root), paths_output(dockerRoot)))
                \o toDockerMountArgs(Mount(paths_nodeModules(root),
                                           paths_nodeModules(dockerRoot)))
                \o Flatten([i \in 1..Len(perImage) |-> toDockerMountArgs(perImage[i])])
                \o << docker.image, mainFilePath >>
        kept == FilterBoolean([i \in 1..Len(list) |-> Str(list[i])])
    IN  [command |-> <<"docker">>, args |-> [i \in 1..Len(kept) |-> kept[i].v]]

\* dockerRunCommand with lines 96 and 97 exchanged.
dockerRunCommand_pathBeforeImage(docker, mainFilePath, logLevel, root) ==
    LET projectPath == Dirname(mainFilePath)
        perImage == mountsPerImage(docker.image, root)
        list == << <<"run">>, <<"-it">>, <<"--rm">>, <<"--env">>,
                   <<"LOG_LEVEL=">> \o TemplateString(logLevel) >>
                \o Flatten([i \in 1..Len(perImage) |-> toDockerMountArgs(perImage[i])])
                \o toDockerMountArgs(Mount(paths_output(root), paths_output(dockerRoot)))
                \o toDockerMountArgs(Mount(paths_nodeModules(root),
                                           paths_nodeModules(dockerRoot)))
                \o toDockerMountArgs(Mount(Resolve(root, projectPath),
                                           Resolve(dockerRoot, projectPath)))
                \o << mainFilePath, docker.image >>
        kept == FilterBoolean([i \in 1..Len(list) |-> Str(list[i])])
    IN  [command |-> <<"docker">>, args |-> [i \in 1..Len(kept) |-> kept[i].v]]

\* dockerRunCommand(docker, mainFilePath, logLevel)
dockerRunCommand(docker, mainFilePath, logLevel, root) ==
    LET projectPath == Dirname(mainFilePath)
        perImage == mountsPerImage(docker.image, root)
        list == << <<"run">>, <<"-it">>, <<"--rm">>, <<"--env">>,
                   <<"LOG_LEVEL=">> \o TemplateString(logLevel) >>
                \o Flatten([i \in 1..Len(perImage) |-> toDockerMountArgs(perImage[i])])
                \o toDockerMountArgs(Mount(paths_output(root), paths_output(dockerRoot)))
                \o toDockerMountArgs(Mount(paths_nodeModules(root),
                                           paths_nodeModules(dockerRoot)))
                \o toDockerMountArgs(Mount(Resolve(root, projectPath),
                                           Resolve(dockerRoot, projectPath)))
                \o << docker.image, mainFilePath >>
        kept == FilterBoolean([i \in 1..Len(list) |-> Str(list[i])])
    IN  [command |-> <<"docker">>, args |-> [i \in 1..Len(kept) |-> kept[i].v]]

(***************************************************************************)
(* The promise of line 20 and the extractor of lines 26-41.                *)
(***************************************************************************)
begin == <<"RESULT_", "BEGIN">>
end == <<"RESULT_", "END">>

NoPromise == [state |-> "none", value |-> <<>>]
PendingPromise == [state |-> "pending", value |-> <<>>]

\* resolve(value): settles a pending promise, ignored by a settled one
PromiseResolve(p, value) ==
    IF p.state = "pending" THEN [state |-> "resolved", value |-> value] ELSE p

\* reject(error)
PromiseReject(p, error) ==
    IF p.state = "pending" THEN [state |-> "rejected", value |-> error] ELSE p

\* message after lines 31-32: the text behind the first RESULT_BEGIN, if any
AfterBegin(message) ==
    IF Includes(message, begin)
    THEN SliceFrom(message, IndexOf(message, begin) + Len(begin))
    ELSE message

\* onData without line 38: the listener stays registered after it resolved.
onData_keepsListening(r, message) ==
    LET m == AfterBegin(message)
        r1 == IF Includes(message, begin) /\ ~Includes(m, end) THEN r \o m ELSE r
        hit == Includes(m, end)
    IN  [raw |-> r1,
         resolve |-> hit,
         value |-> IF hit THEN Trim(r1 \o SliceTo(m, IndexOf(m, end))) ELSE <<>>,
         off |-> FALSE]

\* onData looking for RESULT_END in the buffer and the chunk together.
onData_searchesBuffer(r, message) ==
    LET m == AfterBegin(message)
        all == r \o m
        hit == Includes(all, end)
        r1 == IF Includes(message, begin) /\ ~hit THEN all ELSE r
    IN  [raw |-> r1,
         resolve |-> hit,
         value |-> IF hit THEN Trim(SliceTo(all, IndexOf(all, end))) ELSE <<>>,
         off |-> hit]

\* onData(data) on a buffer r: the buffer it leaves, whether it resolves, the
\* value it resolves with and whether it removes the listener.
\* onData resolving with the text of the chunk alone, the buffer left out.
onData_chunkOnly(r, message) ==
    LET m == AfterBegin(message)
        r1 == IF Includes(message, begin) /\ ~Includes(m, end) THEN r \o m ELSE r
        hit == Includes(m, end)
    IN  [raw |-> r1, resolve |-> hit,
         value |-> IF hit THEN Trim(SliceTo(m, IndexOf(m, end))) ELSE <<>>,
         off |-> hit]

onData(r, message) ==
    LET m == AfterBegin(message)
        r1 == IF Includes(message, begin) /\ ~Includes(m, end) THEN r \o m ELSE r
        hit == Includes(m, end)
    IN  [raw |-> r1,
         resolve |-> hit,
         value |-> IF hit THEN Trim(r1 \o SliceTo(m, IndexOf(m, end))) ELSE <<>>,
         off |-> hit]

(***************************************************************************)
(* History kept for the properties: what the 'data' chunks were.           *)
(***************************************************************************)
\* The text of chunk d behind its first occurrence of token t.
TextAfter(d, t) == SubSeq(d, IndexOf(d, t) + Len(t) + 1, Len(d))

\* The text of chunk d before its first occurrence of token t.
TextBefore(d, t) == SubSeq(d, 1, IndexOf(d, t))

\* "none": no chunk yet; "begun": a chunk with RESULT_BEGIN only, then chunks
\* with neither sentinel; "ended": then a chunk with RESULT_END only.
NextShape(sh, d) ==
    LET b == Includes(d, begin)
        e == Includes(d, end)
    IN  CASE sh = "none" /\ b /\ ~e -> "begun"
          [] sh = "begun" /\ ~b /\ ~e -> "begun"
          [] sh = "begun" /\ ~b /\ e -> "ended"
          [] OTHER -> "other"

NextBetween(sh, bt, d) ==
    CASE NextShape(sh, d) = "begun" /\ sh = "none" -> TextAfter(d, begin)
      [] NextShape(sh, d) = "begun" /\ sh = "begun" -> bt \o d
      [] NextShape(sh, d) = "ended" -> bt \o TextBefore(d, end)
      [] OTHER -> <<>>

(***************************************************************************)
(* callScript, step by step.                                               *)
(***************************************************************************)
NoOutcome == [kind |-> "none", value |-> <<>>]
NoChild == [state |-> "none", error |-> <<>>]
NoPlan == [command |-> <<>>, args |-> <<>>]

\* The message of the Error of line 16.
UnknownExtension(fileExtension) ==
    <<"Unknown extension ">> \o fileExtension \o <<". Accepted: ">>
        \o Join(ConfigKeys, <<", ">>)

\* Lines 13-18: the extension is looked up; an unknown one throws, which rejects
\* the promise the async function returned; a known one gives the command.
CallScript(mainFilePath, logLevelArg) ==
    LET logLevel == IF logLevelArg.t = "undefined" THEN Str(<<"off">>) ELSE logLevelArg
        fileExtension == Extname(mainFilePath)
        docker == dockerRunConfigs(fileExtension)
    IN  /\ pc = "idle"
        /\ cur < NumSessions
        /\ cur' = cur + 1
        /\ call' = [mainFilePath |-> mainFilePath, logLevel |-> logLevelArg]
        /\ IF docker.t = "undefined"
           THEN /\ pc' = "thrown"
                /\ outcome' = [outcome EXCEPT ![cur + 1] =
                                  [kind |-> "thrown", value |-> UnknownExtension(fileExtension)]]
                /\ plan' = plan
           ELSE /\ pc' = "L20"
                /\ plan' = dockerRunCommand(docker, mainFilePath, logLevel, selfRoot)
                /\ outcome' = outcome
        /\ UNCHANGED <<givenMount, mountArgs, selfRoot, json, raw, errorListeners, dataListeners, child,
                       terminal, data, nData, seenBegin, seenEnd, shape, between>>

\* Lines 20-24: the promise is created and its executor registers the listener of
\* the 'error' event of process.
RegisterErrorListener ==
    /\ pc = "L20"
    /\ json' = [json EXCEPT ![cur] = PendingPromise]
    /\ errorListeners' = errorListeners \cup {cur}
    /\ pc' = "L26"
    /\ UNCHANGED <<givenMount, mountArgs, selfRoot, cur, call, plan, raw, outcome, dataListeners, child,
                   terminal, data, nData, seenBegin, seenEnd, shape, between>>

\* Lines 26-41: the buffer is created empty and onData is registered on the
\* 'data' event of process.stdout.
RegisterDataListener ==
    /\ pc = "L26"
    /\ raw' = [raw EXCEPT ![cur] = <<>>]
    /\ dataListeners' = dataListeners \cup {cur}
    /\ pc' = "L44"
    /\ UNCHANGED <<givenMount, mountArgs, selfRoot, cur, call, plan, json, outcome, errorListeners, child,
                   terminal, data, nData, seenBegin, seenEnd, shape, between>>

\* What cp.spawnSync can report in the error field of its result.
SpawnErrors == {<<"ENOENT">>, <<"EACCES">>}

\* Line 45 with cp.spawn in place of cp.spawnSync: the subprocess is started and
\* callScript goes on to line 47 while it runs.
SpawnSync_nonBlocking(error) ==
    /\ pc = "L44"
    /\ IF error = <<>>
       THEN child' = [state |-> "running", error |-> <<>>] /\ pc' = "L47"
       ELSE child' = [state |-> "failed", error |-> error] /\ pc' = "L47"
    /\ UNCHANGED <<givenMount, mountArgs, selfRoot, cur, call, plan, json, raw, outcome, errorListeners,
                   dataListeners, terminal, data, nData, seenBegin, seenEnd, shape,
                   between>>

\* Lines 44-45: cp.spawnSync(command, args, { stdio: 'inherit' }) starts the
\* subprocess and blocks; when the start fails it returns at once, the failure in
\* the error field of its result, which line 45 drops.
SpawnSync(error) ==
    /\ pc = "L44"
    /\ IF error = <<>>
       THEN child' = [state |-> "running", error |-> <<>>] /\ pc' = "L45"
       ELSE child' = [state |-> "failed", error |-> error] /\ pc' = "L47"
    /\ UNCHANGED <<givenMount, mountArgs, selfRoot, cur, call, plan, json, raw, outcome, errorListeners,
                   dataListeners, terminal, data, nData, seenBegin, seenEnd, shape,
                   between>>

\* The subprocess writes a chunk to its standard output, which stdio: 'inherit'
\* made the standard output of this process itself: the chunk goes to the
\* terminal, no 'data' event of process.stdout carries it.
ChildPrint(chunk) ==
    /\ pc = "L45"
    /\ child.state = "running"
    /\ Len(terminal) < MaxPrints
    /\ terminal' = Append(terminal, chunk)
    /\ UNCHANGED <<givenMount, mountArgs, selfRoot, cur, pc, call, plan, json, raw, outcome, errorListeners,
                   dataListeners, child, data, nData, seenBegin, seenEnd, shape,
                   between>>

\* The subprocess terminates and spawnSync returns.
ChildExit ==
    /\ pc = "L45"
    /\ child.state = "running"
    /\ child' = [child EXCEPT !.state = "exited"]
    /\ pc' = "L47"
    /\ UNCHANGED <<givenMount, mountArgs, selfRoot, cur, call, plan, json, raw, outcome, errorListeners,
                   dataListeners, terminal, data, nData, seenBegin, seenEnd, shape,
                   between>>

\* Line 47: await json suspends callScript until the promise is settled.
Await ==
    /\ pc = "L47"
    /\ pc' = "awaiting"
    /\ UNCHANGED <<givenMount, mountArgs, selfRoot, cur, call, plan, json, raw, outcome, errorListeners,
                   dataListeners, child, terminal, data, nData, seenBegin, seenEnd,
                   shape, between, givenMount, mountArgs>>

\* Lines 47-48: the promise is resolved, callScript returns its value.
Return ==
    /\ pc = "awaiting"
    /\ json[cur].state = "resolved"
    /\ outcome' = [outcome EXCEPT ![cur] = [kind |-> "returned", value |-> json[cur].value]]
    /\ pc' = "returned"
    /\ UNCHANGED <<givenMount, mountArgs, selfRoot, cur, call, plan, json, raw, errorListeners, dataListeners,
                   child, terminal, data, nData, seenBegin, seenEnd, shape, between>>

\* Line 47: the promise is rejected, await throws its reason.
Throw ==
    /\ pc = "awaiting"
    /\ json[cur].state = "rejected"
    /\ outcome' = [outcome EXCEPT ![cur] = [kind |-> "thrown", value |-> json[cur].value]]
    /\ pc' = "thrown"
    /\ UNCHANGED <<givenMount, mountArgs, selfRoot, cur, call, plan, json, raw, errorListeners, dataListeners,
                   child, terminal, data, nData, seenBegin, seenEnd, shape, between>>

\* Listeners run between the synchronous runs of the program: not before the
\* first call, and not from line 13 to line 47, where spawnSync blocks too.
EventLoopFree == pc \in {"awaiting", "returned", "thrown"}

\* A 'data' event of process.stdout: every registered onData runs on the chunk
\* (lines 29-40), each on the buffer and the promise of its own session.
DataEvent(chunk) ==
    LET run(s) == onData(raw[s], chunk)
    IN  /\ EventLoopFree
        /\ nData < MaxData
        /\ raw' = [s \in Sessions |-> IF s \in dataListeners THEN run(s).raw ELSE raw[s]]
        /\ json' = [s \in Sessions |->
                      IF s \in dataListeners /\ run(s).resolve
                      THEN PromiseResolve(json[s], run(s).value)
                      ELSE json[s]]
        /\ dataListeners' = {s \in dataListeners : ~run(s).off}
        /\ data' = chunk
        /\ nData' = nData + 1
        /\ seenBegin' = (seenBegin \/ Includes(chunk, begin))
        /\ seenEnd' = (seenEnd \/ Includes(chunk, end))
        /\ shape' = NextShape(shape, chunk)
        /\ between' = NextBetween(shape, between, chunk)
        /\ UNCHANGED <<givenMount, mountArgs, selfRoot, cur, pc, call, plan, outcome, errorListeners, child,
                       terminal>>

\* An 'error' event of process: every registered listener rejects the promise of
\* its session (lines 21-24).
ErrorEvent(error) ==
    /\ EventLoopFree
    /\ json' = [s \in Sessions |->
                  IF s \in errorListeners THEN PromiseReject(json[s], error) ELSE json[s]]
    /\ UNCHANGED <<givenMount, mountArgs, selfRoot, cur, pc, call, plan, raw, outcome, errorListeners,
                   dataListeners, child, terminal, data, nData, seenBegin, seenEnd,
                   shape, between, givenMount, mountArgs>>

(***************************************************************************)
(* The inputs.                                                             *)
(***************************************************************************)
Cwds == { <<"/", "home", "/", "app">>, <<"/">> }

\* What a chunk is made of: the sentinels, their halves, payload, white space.
Pieces == { begin, end, <<"RESULT_">>, <<"END">>, <<"a">>, <<" ">> }

\* Chunks with both sentinels: noise, RESULT_BEGIN, payload, RESULT_END, noise.
BothInOne ==
    { pre \o begin \o mid \o end \o post :
        pre \in {<<>>, <<"a">>}, mid \in {<<>>, <<"a">>, <<" ", "a">>},
        post \in {<<>>, <<"a">>} }

\* The chunks the extractor is fed: one piece, two pieces, or both sentinels
\* in order.  (A 'data' event carries at least one byte.)
Chunks == Pieces \cup {p \o q : p \in Pieces, q \in Pieces} \cup BothInOne

\* What the debugger image prints, chunk by chunk: the sentinels and payload.
ChildChunks == { begin, <<"a">>, end }

Init ==
    /\ selfRoot \in Cwds
    /\ cur = 0
    /\ pc = "idle"
    /\ call = [mainFilePath |-> <<>>, logLevel |-> Undefined]
    /\ plan = NoPlan
    /\ json = [s \in Sessions |-> NoPromise]
    /\ raw = [s \in Sessions |-> <<>>]
    /\ outcome = [s \in Sessions |-> NoOutcome]
    /\ errorListeners = {}
    /\ dataListeners = {}
    /\ child = NoChild
    /\ terminal = <<>>
    /\ data = <<>>
    /\ nData = 0
    /\ seenBegin = FALSE
    /\ seenEnd = FALSE
    /\ shape = "none"
    /\ between = <<>>
    /\ givenMount = Mount(<<>>, <<>>)
    /\ mountArgs = <<>>

(***************************************************************************)
(* Spec: one session of callScript, from the call to its end.              *)
(***************************************************************************)
RequestPaths ==
    { <<"main", ".", "py">>, <<"src", "/", "a", ".", "c">>, <<"notes", ".", "txt">>,
      <<".", "py">>, <<"d", ".", "py", "/", "f">> }

RequestLevels == { Undefined, Str(<<"debug">>) }

ProcessErrors == { <<"EPIPE">> }

Next ==
    \/ \E p \in RequestPaths, l \in RequestLevels : CallScript(p, l)
    \/ RegisterErrorListener
    \/ RegisterDataListener
    \/ \E e \in SpawnErrors \cup {<<>>} : SpawnSync(e)
    \/ \E c \in ChildChunks : ChildPrint(c)
    \/ ChildExit
    \/ Await
    \/ Return
    \/ Throw
    \/ \E c \in ChildChunks : DataEvent(c)
    \/ \E e \in ProcessErrors : ErrorEvent(e)

Spec == Init /\ [][Next]_vars

\* The program's own steps are taken: synchronous code runs to its end, and a
\* settled promise resumes the function that awaits it.  Nothing makes the
\* subprocess print or terminate, or process.stdout or process emit an event.
FairSpec ==
    /\ Spec
    /\ WF_vars(RegisterErrorListener)
    /\ WF_vars(RegisterDataListener)
    /\ WF_vars(\E e \in SpawnErrors \cup {<<>>} : SpawnSync(e))
    /\ WF_vars(Await)
    /\ WF_vars(Return)
    /\ WF_vars(Throw)

(***************************************************************************)
(* SpecExtract: one session with a fixed request, fed every sequence of    *)
(* at most MaxData chunks.                                                 *)
(***************************************************************************)
NextExtract ==
    \/ CallScript(<<"main", ".", "py">>, Undefined)
    \/ RegisterErrorListener
    \/ RegisterDataListener
    \/ SpawnSync(<<>>)
    \/ ChildExit
    \/ Await
    \/ Return
    \/ \E c \in Chunks : DataEvent(c)

InitExtract == Init /\ selfRoot = <<"/", "home", "/", "app">>

SpecExtract == InitExtract /\ [][NextExtract]_vars

(***************************************************************************)
(* SpecCommand: lines 13-18 on every request of RequestSpace.              *)
(***************************************************************************)
AllPaths ==
    { <<"main", ".", "py">>, <<"src", "/", "a", ".", "c">>,
      <<"/", "p", "/", "a", ".", "cpp">>, <<".", ".", "/", "x", ".", "php">>,
      <<".", "/", "t", ".", "py">>, <<"a", ".", "b", ".", "py">>,
      <<"d", ".", "py", "/">>,
      <<"notes", ".", "txt">>, <<"Makefile">>, <<".", "py">>, <<"a", ".", "PY">>,
      <<"d", ".", "py", "/", "f">>, <<"a", ".">>, <<>> }

AllLevels ==
    { Undefined, Null, Str(<<"off">>), Str(<<"debug">>), Str(<<"trace">>), Str(<<>>) }

NextCommand == \E p \in AllPaths, l \in AllLevels : CallScript(p, l)

SpecCommand == Init /\ [][NextCommand]_vars

(***************************************************************************)
(* SpecMount: toDockerMountArgs on every mount of Mounts.                  *)
(***************************************************************************)
MountPaths == { <<"/", "a">>, <<"/", "b">>, <<"/", "usr", "/", "project", "/", "out">>, <<>> }

Mounts ==
    { [type |-> ty, source |-> src, target |-> tgt, readOnly |-> ro] :
        ty \in {Undefined, Str(<<"bind">>)}, src \in MountPaths, tgt \in MountPaths,
        ro \in {Undefined, Bool(TRUE), Bool(FALSE)} }

\* A call of toDockerMountArgs, lines 141-149.
CallToDockerMountArgs ==
    /\ mountArgs = <<>>
    /\ mountArgs' = toDockerMountArgs(givenMount)
    /\ UNCHANGED <<givenMount, selfRoot, cur, pc, call, plan, json, raw, outcome,
                   errorListeners, dataListeners, child, terminal, data, nData,
                   seenBegin, seenEnd, shape, between>>

InitMount ==
    /\ givenMount \in Mounts
    /\ mountArgs = <<>>
    /\ selfRoot = <<"/">>
    /\ cur = 0
    /\ pc = "idle"
    /\ call = [mainFilePath |-> <<>>, logLevel |-> Undefined]
    /\ plan = NoPlan
    /\ json = [s \in Sessions |-> NoPromise]
    /\ raw = [s \in Sessions |-> <<>>]
    /\ outcome = [s \in Sessions |-> NoOutcome]
    /\ errorListeners = {}
    /\ dataListeners = {}
    /\ child = NoChild
    /\ terminal = <<>>
    /\ data = <<>>
    /\ nData = 0
    /\ seenBegin = FALSE
    /\ seenEnd = FALSE
    /\ shape = "none"
    /\ between = <<>>

NextMount == CallToDockerMountArgs

SpecMount == InitMount /\ [][NextMount]_vars

(***************************************************************************)
(* SpecSessions: up to NumSessions calls of callScript, one after the      *)
(* other, in one process.                                                  *)
(***************************************************************************)
\* The caller is done with a session, because callScript returned or because it
\* gave up on a promise that stays pending after the subprocess ended, and is
\* ready for its next call.  The listeners and the closures of the session
\* (json, raw) stay as they are: no line removes or resets them.
NextCall ==
    /\ pc \in {"awaiting", "returned"}
    /\ cur < NumSessions
    /\ pc' = "idle"
    /\ plan' = NoPlan
    /\ child' = NoChild
    /\ terminal' = <<>>
    /\ data' = <<>>
    /\ seenBegin' = FALSE
    /\ seenEnd' = FALSE
    /\ shape' = "none"
    /\ between' = <<>>
    /\ UNCHANGED <<givenMount, mountArgs, selfRoot, cur, call, json, raw, outcome,
                   errorListeners, dataListeners, nData>>

NextSessions ==
    \/ CallScript(<<"main", ".", "py">>, Undefined)
    \/ RegisterErrorListener
    \/ RegisterDataListener
    \/ SpawnSync(<<>>)
    \/ ChildExit
    \/ Await
    \/ Return
    \/ \E c \in ChildChunks : DataEvent(c)
    \/ NextCall

SpecSessions == InitExtract /\ [][NextSessions]_vars

(***************************************************************************)
(* Properties.                                                             *)
(***************************************************************************)
\* The text the subprocess printed on its standard output.
Printed == Flatten(terminal)

\* The subprocess printed a chunk with RESULT_BEGIN, later a chunk with
\* RESULT_END, and terminated.
PrintedResult ==
    /\ child.state = "exited"
    /\ \E i, j \in 1..Len(terminal) :
          i < j /\ Includes(terminal[i], begin) /\ Includes(terminal[j], end)

\* The text it printed between the two sentinels, trimmed.
PrintedPayload == Trim(TextBefore(TextAfter(Printed, begin), end))

\* C1: when the subprocess prints RESULT_BEGIN, payload and RESULT_END on its
\* standard output and terminates, callScript eventually returns the trimmed
\* payload.
C1_PrintedResultIsReturned ==
    PrintedResult ~>
        (/\ cur \in Sessions
         /\ outcome[cur].kind = "returned"
         /\ outcome[cur].value = PrintedPayload)

\* C2: after a chunk with RESULT_BEGIN, any number of chunks with neither
\* sentinel and a chunk with RESULT_END, the extractor has resolved to the trimmed
\* concatenation of the text behind RESULT_BEGIN, every intermediate chunk in
\* full and in order, and the text before RESULT_END.
C2_ResolvesToAllTextBetween ==
    shape = "ended" =>
        /\ json[cur].state = "resolved"
        /\ json[cur].value = Trim(between)

\* C3: while no chunk with RESULT_BEGIN has arrived, a chunk without
\* RESULT_BEGIN changes nothing: not the buffer, not the promise, not the
\* registration of the listener.
C3_ChunkBeforeBeginIsIgnored ==
    [][(nData' = nData + 1 /\ ~seenBegin /\ ~Includes(data', begin)) =>
          (raw' = raw /\ json' = json /\ dataListeners' = dataListeners)]_vars

\* A chunk with RESULT_BEGIN and, behind it, RESULT_END.
BeginThenEnd(d) == Includes(d, begin) /\ Includes(TextAfter(d, begin), end)

\* C4: a chunk with RESULT_BEGIN followed by RESULT_END, arriving while the
\* extractor listens, resolves it to the trimmed text between the two sentinels
\* of that chunk, whatever arrived before.
C4_BothSentinelsInOneChunk ==
    [][(nData' = nData + 1 /\ cur \in dataListeners /\ BeginThenEnd(data')) =>
          /\ json'[cur].state = "resolved"
          /\ json'[cur].value = Trim(TextBefore(TextAfter(data', begin), end))]_vars

\* C8: when the start of the subprocess fails, callScript eventually throws the
\* error the process machinery reported.
C8_SpawnFailureIsThrown ==
    (child.state = "failed") ~>
        (/\ cur \in Sessions
         /\ outcome[cur].kind = "thrown"
         /\ outcome[cur].value = child.error)

\* C5: a resolved extractor keeps its payload and its buffer whatever chunk
\* arrives, and the step that resolves it removes its listener.
C5_ResolvesOnce ==
    [][\A s \in Sessions :
          /\ json[s].state = "resolved" => (json'[s] = json[s] /\ raw'[s] = raw[s])
          /\ (json[s].state = "pending" /\ json'[s].state = "resolved")
                => s \notin dataListeners']_vars

\* A chunk with RESULT_BEGIN and without RESULT_END has arrived after the
\* extractor resolved (no such chunk resolves it).
C5_ChunkAfterResolution ==
    /\ cur \in Sessions
    /\ json[cur].state = "resolved"
    /\ json[cur].value = <<"a">>
    /\ Includes(data, begin)
    /\ ~Includes(data, end)
    /\ AfterBegin(data) # <<>>

\* C6: as long as no chunk held the whole token RESULT_END, the promise is
\* neither resolved nor rejected and callScript has neither returned nor thrown.
C6_NoEndNoResolution ==
    (cur \in Sessions /\ ~seenEnd) =>
        /\ json[cur].state \in {"none", "pending"}
        /\ outcome[cur].kind = "none"

\* RESULT_END arrived in two halves, both kept in the buffer, and no chunk
\* held it whole.
C6_EndSplitAcrossChunks ==
    /\ cur \in Sessions
    /\ ~seenEnd
    /\ nData >= 2
    /\ Includes(raw[cur], end)
    /\ json[cur].state = "pending"

\* The keys of the table of supported extensions.
SupportedExtensions == { <<".", "c">>, <<".", "cpp">>, <<".", "php">>, <<".", "py">> }

\* C7: a call whose path has no supported extension has thrown, and nothing
\* else happened: no command, no promise, no listener, no subprocess.
C7_UnsupportedFailsFirst ==
    (cur \in Sessions /\ Extname(call.mainFilePath) \notin SupportedExtensions) =>
        /\ pc = "thrown"
        /\ outcome[cur].kind = "thrown"
        /\ plan = NoPlan
        /\ json[cur] = NoPromise
        /\ cur \notin errorListeners
        /\ cur \notin dataListeners
        /\ child = NoChild

\* callScript was called on d.py/f and threw, and a 'data' event followed.
C7_UnsupportedCalled ==
    /\ cur \in Sessions
    /\ call.mainFilePath = <<"d", ".", "py", "/", "f">>
    /\ outcome[cur].kind = "thrown"
    /\ nData >= 1

\* The level the command carries: 'off' when the caller gave none.
ExpectedLevel == IF call.logLevel.t = "undefined" THEN <<"off">> ELSE TemplateString(call.logLevel)

\* C9: the argument list is run, -it, --rm, --env, LOG_LEVEL=<level>, then
\* pairs of --mount and a specification, then the image of the extension, then
\* the path as the caller gave it; no element is empty.
C9_ArgumentList ==
    (pc = "L20") =>
        LET a == plan.args
            n == Len(a)
        IN  /\ plan.command = <<"docker">>
            /\ n >= 7
            /\ SubSeq(a, 1, 5) = << <<"run">>, <<"-it">>, <<"--rm">>, <<"--env">>,
                                    <<"LOG_LEVEL=">> \o ExpectedLevel >>
            /\ (n - 7) % 2 = 0
            /\ \A i \in 6..(n - 2) :
                  IF i % 2 = 0 THEN a[i] = <<"--mount">> ELSE a[i][1] = "type="
            /\ a[n - 1] = dockerRunConfigs(Extname(call.mainFilePath)).image
            /\ a[n] = call.mainFilePath
            /\ \A i \in 1..n : a[i] # <<>>

\* The command was assembled for a .cpp file, no level given.
C9_Assembled ==
    /\ pc = "L20"
    /\ call.mainFilePath = <<"/", "p", "/", "a", ".", "cpp">>
    /\ call.logLevel.t = "undefined"
    /\ Len(plan.args) = 15

\* The segments of a string between its commas.
RECURSIVE CommaSegments(_)
CommaSegments(s) ==
    LET i == IndexOf(s, <<",">>)
    IN  IF i = -1 THEN {s}
        ELSE {SubSeq(s, 1, i)} \cup CommaSegments(SubSeq(s, i + 2, Len(s)))

ReadOnlyIsTrue(m) == m.readOnly.t = "boolean" /\ m.readOnly.v

\* C10: toDockerMountArgs gives --mount and type=bind,source=<source>,
\* target=<target>, with ,readonly behind it exactly when readOnly is true;
\* otherwise the string has no readonly token and no empty segment.
C10_MountSerialization ==
    (mountArgs # <<>>) =>
        /\ Len(mountArgs) = 2
        /\ mountArgs[1] = <<"--mount">>
        /\ mountArgs[2] =
              <<"type=", "bind", ",", "source=">> \o givenMount.source
                 \o <<",", "target=">> \o givenMount.target
                 \o (IF ReadOnlyIsTrue(givenMount) THEN <<",", "readonly">> ELSE <<>>)
        /\ ~ReadOnlyIsTrue(givenMount) =>
              /\ \A i \in 1..Len(mountArgs[2]) : mountArgs[2][i] # "readonly"
              /\ <<>> \notin CommaSegments(mountArgs[2])

\* A mount with readOnly false was serialized.
C10_SerializedNotReadOnly ==
    /\ mountArgs # <<>>
    /\ givenMount.readOnly.t = "boolean"
    /\ ~givenMount.readOnly.v
    /\ givenMount.source = <<"/", "a">>

\* The source and the target a --mount specification names.
MountSource(arg) == TextBefore(TextAfter(arg, <<"source=">>), <<",", "target=">>)
MountTarget(arg) == TextAfter(arg, <<"target=">>)

\* The specification of the last --mount pair, the project mount.
ProjectMount == plan.args[Len(plan.args) - 2]

\* The parent directory of the main file, resolved against a root.
ProjectDirectory(root) == Resolve(root, Dirname(call.mainFilePath))

\* C11, as stated: the project mount's source is the parent directory of the
\* main file resolved on the host, and its target is that same absolute path.
C11_TargetIsSource ==
    (pc = "L20") =>
        /\ MountSource(ProjectMount) = ProjectDirectory(selfRoot)
        /\ MountTarget(ProjectMount) = MountSource(ProjectMount)

\* C11, amended: the source is the parent directory resolved against the host
\* working directory, the target is the parent directory resolved against
\* /usr/project; they are the same path when the main-file path is absolute.
C11_TargetUnderDockerRoot ==
    (pc = "L20") =>
        /\ MountSource(ProjectMount) = ProjectDirectory(selfRoot)
        /\ MountTarget(ProjectMount) = ProjectDirectory(dockerRoot)
        /\ IsAbsolute(MountSource(ProjectMount))
        /\ IsAbsolute(call.mainFilePath) =>
              MountTarget(ProjectMount) = MountSource(ProjectMount)

\* The command was assembled for the relative path src/a.c in /home/app.
C11_RelativePathAssembled ==
    /\ pc = "L20"
    /\ call.mainFilePath = <<"src", "/", "a", ".", "c">>
    /\ selfRoot = <<"/", "home", "/", "app">>
    /\ MountSource(ProjectMount) = <<"/", "home", "/", "app", "/", "src">>
    /\ MountTarget(ProjectMount) = <<"/", "usr", "/", "project", "/", "src">>

\* C12: every supported extension has a descriptor with a non-empty image, the
\* image is a key of the mount table, and no mount of its list has an empty
\* source or an empty target; the command assembled for a call names that image.
C12_TablesWellFormed ==
    /\ \A ext \in SupportedExtensions :
          LET docker == dockerRunConfigs(ext)
              mounts == mountsPerImage(docker.image, selfRoot)
          IN  /\ docker.t = "object"
              /\ docker.image # <<>>
              /\ docker.image \in MountImages
              /\ \A i \in 1..Len(mounts) :
                    /\ mounts[i].source # <<>>
                    /\ mounts[i].target # <<>>
    /\ (pc = "L20") =>
          /\ Extname(call.mainFilePath) \in SupportedExtensions
          /\ plan.args[Len(plan.args) - 1] =
                dockerRunConfigs(Extname(call.mainFilePath)).image
          /\ \A i \in 6..(Len(plan.args) - 2) :
                (i % 2 = 1) =>
                    /\ MountSource(plan.args[i]) # <<>>
                    /\ MountTarget(plan.args[i]) # <<>>

\* A command was assembled for an image with a runtime-specific mount.
C12_ImageWithMounts ==
    /\ pc = "L20"
    /\ plan.args[Len(plan.args) - 1] = <<"lldb-debugger">>
    /\ Len(mountsPerImage(<<"lldb-debugger">>, selfRoot)) = 1
    /\ Len(plan.args) = 15

\* C13: the step that starts the subprocess is taken with the session's error
\* listener and data listener registered, its promise pending and no chunk yet
\* handled; the step that suspends callScript on the promise is taken with the
\* subprocess over (terminated, or never started), whatever it printed before.
C13_StepOrder ==
    [][ /\ (child.state = "none" /\ child'.state # "none") =>
              /\ cur \in errorListeners
              /\ cur \in dataListeners
              /\ json[cur].state = "pending"
              /\ nData = 0
        /\ (pc # "awaiting" /\ pc' = "awaiting") =>
              /\ child.state \in {"exited", "failed"}
              /\ terminal' = terminal ]_vars

\* callScript awaits the promise after a subprocess that printed has terminated.
C13_AwaitAfterExit ==
    /\ pc = "awaiting"
    /\ child.state = "exited"
    /\ terminal # <<>>
    /\ cur \in errorListeners
    /\ cur \in dataListeners

\* The part of a resolving chunk that enters the payload: what precedes the first
\* RESULT_END of the chunk, once the text up to and including its first
\* RESULT_BEGIN, if it has one, is removed.
PayloadPart(d) ==
    TextBefore(IF Includes(d, begin) THEN TextAfter(d, begin) ELSE d, end)

\* C14: the step that resolves the promise of a session resolves it with the
\* trimmed concatenation of the buffer the session had before the chunk and of
\* the payload part of the chunk; the value neither starts nor ends with
\* whitespace.
C14_PayloadIsTrimmedConcatenation ==
    [][ \A s \in Sessions :
          (json[s].state = "pending" /\ json'[s].state = "resolved") =>
              LET value == json'[s].value
              IN  /\ value = Trim(raw[s] \o PayloadPart(data'))
                  /\ value # <<>> =>
                        /\ value[1] \notin WhiteSpace
                        /\ value[Len(value)] \notin WhiteSpace ]_vars

\* A promise was resolved with a buffer and a chunk that both contributed.
C14_BufferAndChunkJoined ==
    /\ cur \in Sessions
    /\ json[cur].state = "resolved"
    /\ raw[cur] = <<"a">>
    /\ data = <<"a">> \o end
    /\ json[cur].value = <<"a", "a">>

\* The directory or file of a name directly under a root directory.
Under(root, name) == IF root = <<"/">> THEN root \o name ELSE root \o <<"/">> \o name

\* The specifications of the --mount pairs of the command, in order.
MountSpecs == [i \in 1..((Len(plan.args) - 7) \div 2) |-> plan.args[5 + 2 * i]]

\* C15: the --mount pairs are those of the image's list in mountsPerImage, in
\* its order (none for python-debugger), then the output mount, then the
\* node_modules mount, then the project mount, and no other; the output mount
\* and the node_modules mount name out and node_modules under the working
\* directory as source and under /usr/project as target.
C15_MountOrder ==
    (pc = "L20") =>
        LET image == plan.args[Len(plan.args) - 1]
            table == mountsPerImage(image, selfRoot)
            k == Len(table)
        IN  /\ Len(plan.args) = 7 + 2 * (k + 3)
            /\ Len(MountSpecs) = k + 3
            /\ \A i \in 1..(k + 3) : plan.args[4 + 2 * i] = <<"--mount">>
            /\ (image = <<"python-debugger">>) => k = 0
            /\ (image # <<"python-debugger">>) => k = 1
            /\ \A i \in 1..k :
                  /\ MountSource(MountSpecs[i]) = table[i].source
                  /\ MountTarget(MountSpecs[i]) = table[i].target
            /\ MountSource(MountSpecs[k + 1]) = Under(selfRoot, <<"out">>)
            /\ MountTarget(MountSpecs[k + 1]) = Under(dockerRoot, <<"out">>)
            /\ MountSource(MountSpecs[k + 2]) = Under(selfRoot, <<"node_modules">>)
            /\ MountTarget(MountSpecs[k + 2]) = Under(dockerRoot, <<"node_modules">>)
            /\ MountSource(MountSpecs[k + 3]) = ProjectDirectory(selfRoot)
            /\ MountTarget(MountSpecs[k + 3]) = ProjectDirectory(dockerRoot)

\* A command with four mounts was assembled for a .php file in /home/app.
C15_FourMounts ==
    /\ pc = "L20"
    /\ Extname(call.mainFilePath) = <<".", "php">>
    /\ selfRoot = <<"/", "home", "/", "app">>
    /\ Len(MountSpecs) = 4
    /\ MountSource(MountSpecs[1]) = <<"/", "home", "/", "app", "/", "vscode-php-debug">>
    /\ MountTarget(MountSpecs[2]) = <<"/", "usr", "/", "project", "/", "out">>

\* C16: a session whose call has returned has neither its data listener nor its
\* error listener registered, so the listeners registered when every call made
\* so far has returned are the ones registered before the first call: none.
C16_NoListenerAfterReturn ==
    /\ \A s \in Sessions :
          (outcome[s].kind = "returned") =>
              /\ s \notin dataListeners
              /\ s \notin errorListeners
    /\ (\A s \in 1..cur : outcome[s].kind = "returned") =>
          Cardinality(dataListeners) + Cardinality(errorListeners) = 0

\* C17: a step that handles a chunk during a session changes neither the buffer
\* nor the promise of an earlier session.
C17_ChunkReachesOneSession ==
    [][ (nData' = nData + 1) =>
           \A s \in Sessions :
              (s < cur) => (raw'[s] = raw[s] /\ json'[s] = json[s]) ]_vars

====
